---- MODULE Spec2Model ----
(***************************************************************************)
(* SafeTrace: safety-weighted routing engine (threat fusion, Dijkstra      *)
(* search, graph loading) and the MapApp client that plans a route,        *)
(* monitors a journey and drives SOS.                                      *)
(*                                                                         *)
(* Ten specifications share this module:                                   *)
(*   SpecWeight  - the edge weight calculation as a pure function          *)
(*   SpecEngine  - load_risk_and_graph_data and the route endpoint         *)
(*   SpecMonitor - the alert service called directly, with its clock       *)
(*   Spec        - the MapApp page against the backend                     *)
(*   SpecHome    - the Home page with typed coordinates                    *)
(*   SpecRoute   - route planning of MapApp, with the request timeout      *)
(*   SpecFixture - the route endpoint on the 4-node fixture A, B, C, D     *)
(*   SpecHandler - the Calculate Route handler of MapApp and of Home       *)
(*   SpecPage    - MapApp from mount to unmount, with its monitor          *)
(*   SpecSOS     - SOS activation, location updates and deactivation       *)
(***************************************************************************)
EXTENDS Integers, Sequences, FiniteSets, TLC

Modes == {"safe", "balanced", "stealth", "escort"}

\* density(edge) of the crowd signal provider; "unknown" is neutral
Densities == {"low", "medium", "high", "unknown"}

(***************************************************************************)
(* Bound of the model: the longest base travel time of an edge.            *)
(***************************************************************************)
MaxBase == 60

\* precomputed risk scores are on a 0-10 scale
MaxRisk == 10

(***************************************************************************)
(* Threat fusion: the edge weight.                                         *)
(* Weights are kept as integers in units of 1/200, so that the risk        *)
(* multipliers (hundredths) and the average of two endpoint scores         *)
(* (halves) stay exact.                                                    *)
(***************************************************************************)
WeightUnit == 200

\* a configuration in which balanced is more risk sensitive than safe
ModeRiskMultipliersSwapped(m) ==
    CASE m = "safe"     -> 50
      [] m = "balanced" -> 80
      [] m = "stealth"  -> 30
      [] m = "escort"   -> 75

\* MODE_RISK_MULTIPLIERS of config.py, in hundredths
MODE_RISK_MULTIPLIERS(m) ==
    CASE m = "safe"     -> 80
      [] m = "balanced" -> 50
      [] m = "stealth"  -> 30
      [] m = "escort"   -> 75

\* "Crowd Impact" column of the routing modes table (magnitude)
CrowdCoefficient(m) ==
    CASE m = "safe"     -> 15
      [] m = "balanced" -> 10
      [] m = "stealth"  -> 75
      [] m = "escort"   -> 15

\* density level of an edge as a number
DensityLevel(c) ==
    CASE c = "low"    -> 1
      [] c = "medium" -> 2
      [] c = "high"   -> 3
      [] c = "unknown" -> 0

\* an adjustment that rewards crowds under every mode
CrowdAdjustmentRewardsAll(m, c) == 0 - CrowdCoefficient(m) * DensityLevel(c)

\* safe (and balanced) reward crowds, stealth penalizes them,
\* escort penalizes isolated (low density) edges
CrowdAdjustment(m, c) ==
    CASE m = "safe"     -> 0 - CrowdCoefficient(m) * DensityLevel(c)
      [] m = "balanced" -> 0 - CrowdCoefficient(m) * DensityLevel(c)
      [] m = "stealth"  -> CrowdCoefficient(m) * DensityLevel(c)
      [] m = "escort"   -> IF c = "low" THEN CrowdCoefficient(m) ELSE 0

\* darkness penalty: elevated between 23:00 and 04:00
NightFactor == 2

DarknessFactor(dark) == IF dark = 1 THEN NightFactor ELSE 1

\* final_weight = base_time + (risk * sensitivity) + crowd_adjustment,
\* risk being the mean of the two endpoint scores under the penalties
EdgeWeight(m, base, ru, rv, dark, c) ==
    WeightUnit * base
      + MODE_RISK_MULTIPLIERS(m) * (ru + rv) * DarknessFactor(dark)
      + WeightUnit * CrowdAdjustment(m, c)


(***************************************************************************)
(* The road network: nodes (intersections) with coordinates, directed      *)
(* edges with a base travel time.  y is the latitude, x the longitude.     *)
(***************************************************************************)
Nodes == 1..4

NodePos == (1 :> <<0, 0>>) @@ (2 :> <<0, 8>>) @@ (3 :> <<8, 0>>) @@ (4 :> <<8, 8>>)

CandidateEdges == {<<1, 2>>, <<1, 3>>, <<3, 4>>, <<1, 4>>}

Hours == {12, 23}

\* the elements of a set of nodes as a sequence, lowest or highest first
RECURSIVE Ascending(_)
Ascending(S) ==
    IF S = {} THEN <<>>
    ELSE LET m == CHOOSE x \in S : \A y \in S : x <= y
         IN  <<m>> \o Ascending(S \ {m})

RECURSIVE Descending(_)
Descending(S) ==
    IF S = {} THEN <<>>
    ELSE LET m == CHOOSE x \in S : \A y \in S : x >= y
         IN  <<m>> \o Descending(S \ {m})

\* the adjacencies a graph with edges E may hold: the successors of a node
\* in the order its edges were added
Adjacencies(E) ==
    { [v \in Nodes |-> Ascending({u \in Nodes : <<v, u>> \in E})],
      [v \in Nodes |-> Descending({u \in Nodes : <<v, u>> \in E})] }

\* a graph: its edges, the travel_time attribute of each, and the adjacency
IsGraph(g) ==
    /\ g.edges \subseteq CandidateEdges
    /\ DOMAIN g.travel_time = g.edges
    /\ g.adj \in Adjacencies(g.edges)

\* the graphs safe_graph.gpickle may hold: the full network, the network
\* without the direct segment 1 -> 4, and one where node 4 cannot be reached;
\* every segment but 1 -> 3 is a short or a long one
EdgeSets ==
    {CandidateEdges, CandidateEdges \ {<<1, 4>>}, {<<1, 2>>, <<1, 3>>}}

GraphFiles ==
    UNION { { [nodes |-> Nodes, edges |-> E, travel_time |-> tt, adj |-> a] :
                tt \in {f \in [E -> {1, MaxBase}] : f[<<1, 3>>] = 1},
                a \in Adjacencies(E) } :
            E \in EdgeSets }

\* the tables hourly_risk_data.csv may hold: node 3 is dangerous; the second
\* table has no record for nodes 2 and 4
RiskFiles ==
    { [nh \in Nodes \X Hours |-> IF nh[1] = 3 THEN MaxRisk ELSE 0],
      [nh \in {1, 3} \X Hours |-> IF nh[1] = 3 THEN MaxRisk ELSE 1] }

\* default score of a (node, hour) pair without a record
DefaultRisk == 0

\* a lookup that treats a missing record as the worst score
RiskScoreMissingIsWorst(riskData, n, h) ==
    IF <<n, h>> \in DOMAIN riskData THEN riskData[<<n, h>>] ELSE MaxRisk

\* get_precomputed_risk_score
get_precomputed_risk_score(riskData, n, h) ==
    IF <<n, h>> \in DOMAIN riskData THEN riskData[<<n, h>>] ELSE DefaultRisk

\* darkness is high between 23:00 and 04:00
IsDark(h) == IF h >= 23 \/ h < 4 THEN 1 ELSE 0

\* step 3 of the routing engine: the safety weight of every edge of the graph
SafetyWeights(g, riskData, crowdOf, m, h) ==
    [e \in g.edges |->
        EdgeWeight(m, g.travel_time[e],
                   get_precomputed_risk_score(riskData, e[1], h),
                   get_precomputed_risk_score(riskData, e[2], h),
                   IsDark(h), crowdOf[e])]

\* step 2 and 3: the copy of the graph that carries the safety weights
WeightedCopy(g, riskData, crowdOf, m, h) ==
    [nodes |-> g.nodes, edges |-> g.edges, travel_time |-> g.travel_time,
     adj |-> g.adj, safety_weight |-> SafetyWeights(g, riskData, crowdOf, m, h)]

(***************************************************************************)
(* Pathfinding: NetworkX's Dijkstra over safety_weight.  The fringe is a   *)
(* heap of <<distance, counter, node>>: the entry of least distance is     *)
(* popped, the one pushed first among equals.  The neighbours of a node    *)
(* are visited in the order the graph holds them.  The search stops when   *)
(* the target is popped; a shorter way to a node already settled is        *)
(* reported as contradictory ("negative weights?").                        *)
(***************************************************************************)
Succ(E, v) == {u \in Nodes : <<v, u>> \in E}

HeapMin(fringe) ==
    CHOOSE x \in fringe :
        \A y \in fringe : x[1] < y[1] \/ (x[1] = y[1] /\ x[2] <= y[2])

RECURSIVE PathTo(_, _, _)
PathTo(pred, s, v) == IF v = s THEN <<s>> ELSE Append(PathTo(pred, s, pred[v]), v)

\* st: fringe, counter c, settled nodes in order with their final dist,
\* seen nodes with their tentative distance, and the predecessors
RECURSIVE DijkstraLoop(_, _, _, _, _)
DijkstraLoop(adj, W, s, t, st) ==
    IF st.fringe = {}
    THEN [raised |-> "NetworkXNoPath", path |-> <<>>, order |-> st.order,
          dist |-> st.dist]
    ELSE LET top == HeapMin(st.fringe)
             d == top[1]
             v == top[3]
             rest == st.fringe \ {top}
             settled == {st.order[i] : i \in 1..Len(st.order)}
             nb == adj[v]
             vu(i) == d + W[<<v, nb[i]>>]
             contradictory == {i \in 1..Len(nb) :
                                 nb[i] \in settled /\ vu(i) < st.dist[nb[i]]}
             better == {i \in 1..Len(nb) :
                          /\ nb[i] \notin settled \cup {v}
                          /\ nb[i] \notin st.seen \/ vu(i) < st.tentative[nb[i]]}
             improved(u) == \E i \in better : nb[i] = u
             via(u) == vu(CHOOSE i \in better : nb[i] = u)
         IN  IF v \in settled
             THEN DijkstraLoop(adj, W, s, t, [st EXCEPT !.fringe = rest])
             ELSE IF v = t
             THEN [raised |-> "", path |-> PathTo(st.pred, s, t),
                   order |-> Append(st.order, v),
                   dist |-> [st.dist EXCEPT ![v] = d]]
             ELSE IF contradictory # {}
             THEN [raised |-> "ValueError", path |-> <<>>,
                   order |-> Append(st.order, v),
                   dist |-> [st.dist EXCEPT ![v] = d]]
             ELSE DijkstraLoop(adj, W, s, t,
                    [fringe |-> rest \cup {<<vu(i), st.c + i, nb[i]>> : i \in better},
                     c |-> st.c + Len(nb),
                     order |-> Append(st.order, v),
                     dist |-> [st.dist EXCEPT ![v] = d],
                     seen |-> st.seen \cup {nb[i] : i \in better},
                     tentative |-> [u \in Nodes |-> IF improved(u) THEN via(u)
                                                    ELSE st.tentative[u]],
                     pred |-> [u \in Nodes |-> IF improved(u) THEN v
                                               ELSE st.pred[u]]])

\* the search from s to t: what it raised ("" when it found a path), the
\* node path, the nodes in the order they were settled and their distances
Dijkstra(adj, W, s, t) ==
    DijkstraLoop(adj, W, s, t,
        [fringe |-> {<<0, 0, s>>}, c |-> 0, order |-> <<>>,
         dist |-> [u \in Nodes |-> 0], seen |-> {s},
         tentative |-> [u \in Nodes |-> 0], pred |-> [u \in Nodes |-> u]])

\* total cost of a node path under W
RECURSIVE PathCost(_, _)
PathCost(W, p) ==
    IF Len(p) < 2 THEN 0 ELSE W[<<p[1], p[2]>>] + PathCost(W, Tail(p))

\* brute force: the costs of all simple paths from u to t avoiding visited
RECURSIVE SimplePathCosts(_, _, _, _, _)
SimplePathCosts(E, W, u, t, visited) ==
    IF u = t
    THEN {0}
    ELSE UNION { { W[<<u, v>>] + c :
                     c \in SimplePathCosts(E, W, v, t, visited \cup {v}) } :
                 v \in Succ(E, u) \ visited }

MinOf(S) == CHOOSE x \in S : \A y \in S : x <= y

(***************************************************************************)
(* Coordinate snapping: the nearest node of the graph.                     *)
(***************************************************************************)
Dist2(p, q) == (p[1] - q[1]) * (p[1] - q[1]) + (p[2] - q[2]) * (p[2] - q[2])

snap_coordinates_to_node(coords, p) ==
    CHOOSE n \in DOMAIN coords :
        \A k \in DOMAIN coords :
            Dist2(coords[n], p) < Dist2(coords[k], p)
              \/ (Dist2(coords[n], p) = Dist2(coords[k], p) /\ n <= k)

(***************************************************************************)
(* Journey safety monitor (POST /alerts/check-status): deviation from the  *)
(* planned route, hazards on it, and the alert cooldown.                   *)
(***************************************************************************)
DeviationThreshold == 1

AlertThreshold == 5

Cooldown == 2

\* the same measured to the end points of the segment only
SegmentFartherThanVertices(p, a, b, thr) ==
    Dist2(p, a) > thr * thr /\ Dist2(p, b) > thr * thr

\* is the distance from p to the segment a-b greater than thr
SegmentFartherThan(p, a, b, thr) ==
    LET len2 == Dist2(a, b)
        dot == (p[1] - a[1]) * (b[1] - a[1]) + (p[2] - a[2]) * (b[2] - a[2])
        cross == (b[1] - a[1]) * (p[2] - a[2]) - (b[2] - a[2]) * (p[1] - a[1])
    IN  IF len2 = 0 \/ dot <= 0 THEN Dist2(p, a) > thr * thr
        ELSE IF dot >= len2 THEN Dist2(p, b) > thr * thr
        ELSE cross * cross > thr * thr * len2

\* the perpendicular distance from p to the polyline exceeds the threshold
Deviates(p, coords) ==
    IF Len(coords) = 1
    THEN Dist2(p, coords[1]) > DeviationThreshold * DeviationThreshold
    ELSE \A i \in 1..(Len(coords) - 1) :
            SegmentFartherThan(p, coords[i], coords[i + 1], DeviationThreshold)

\* a node of the planned route has a risk above the alert threshold
Hazardous(coords, nodeCoords, riskData, h) ==
    \E i \in 1..Len(coords) :
        get_precomputed_risk_score(riskData,
            snap_coordinates_to_node(nodeCoords, coords[i]), h) > AlertThreshold

\* a service that keeps no cooldown
CooledDownAlways(lastAlert, cond, t) == TRUE

\* no alert for this condition within the cooldown window before time t
CooledDown(lastAlert, cond, t) ==
    lastAlert[cond] < 0 \/ t - lastAlert[cond] >= Cooldown

NoAlert == [alert_type |-> "", action_required |-> FALSE]

\* the alert of one check: deviation first, then hazard, each at most once
\* per cooldown window
CheckStatus(p, coords, nodeCoords, riskData, h, lastAlert, t) ==
    IF Deviates(p, coords) /\ CooledDown(lastAlert, "deviation", t)
    THEN [alert_type |-> "deviation", action_required |-> TRUE]
    ELSE IF Hazardous(coords, nodeCoords, riskData, h)
            /\ CooledDown(lastAlert, "hazard", t)
    THEN [alert_type |-> "hazard", action_required |-> TRUE]
    ELSE NoAlert

VARIABLES wIn, wOut

wvars == <<wIn, wOut>>

(***************************************************************************)
(* Backend state: the module globals of riskscoreservice.py, the position  *)
(* of load_risk_and_graph_data, and the last route request served.         *)
(***************************************************************************)
VARIABLES
    fileGraph,        \* contents of data/safe_graph.gpickle
    fileRisk,         \* contents of data/hourly_risk_data.csv
    RISK_DATA,        \* global: (node, hour) -> score
    NODE_TO_COORDS,   \* global: node -> (lat, lon)
    G,                \* global: <<>> (None) or <<graph>>
    graph_obj,        \* local of load_risk_and_graph_data
    loadPc,           \* "start", "risk", "graph", "coords", "done", "failed"
    req,              \* the route request being served: <<>> or <<request>>
    resp,             \* response to the request last received
    routeCopy         \* the weighted copy that request built

evars == <<fileGraph, fileRisk, RISK_DATA, NODE_TO_COORDS, G, graph_obj,
           loadPc, req, resp, routeCopy>>

(***************************************************************************)
(* MapApp page state (useState / useRef), the requests it has in flight,   *)
(* and the alert service's clock and cooldown table.                       *)
(***************************************************************************)
VARIABLES
    backendConnected,        \* "null", "true" or "false"
    start,                   \* <<>> (null) or <<coordinate>>
    end,
    mode,
    currentLocation,
    typed,                   \* Home page: text typed into each coordinate
                             \* field, <<>> for a field not touched
    route,                   \* Coordinate[]
    routeInfo,               \* <<>> (null) or <<[mode]>>
    loading,
    error,                   \* "" (null) or the message
    routeCall,               \* calculateRoute awaited by handleCalculateRoute
    nRouteCalls,             \* route calculations started so far
    journeyStarted,
    showReviewModal,
    monitoringIntervalRef,   \* 0 (null) or the id setInterval returned
    intervals,               \* live intervals, each with the values its
                             \* callback closed over
    checks,                  \* checkSafetyStatus calls in flight
    nChecks,                 \* checks sent so far
    alertResponse,           \* <<>> (null) or <<AlertResponse>>
    rerouteTriggered,        \* Reroute Now was clicked for the last alert
    now,                     \* clock of the alert service
    last_alert_time          \* condition -> time of its last alert, -1 if none

(***************************************************************************)
(* The page's mount state and its pending error timeouts, and the SOS      *)
(* state of MapApp: the activation and deactivation requests in flight,    *)
(* the live location-update intervals and the position lookups pending.    *)
(***************************************************************************)
VARIABLES
    mounted,                 \* the MapApp component is mounted
    errorTimeouts,           \* pending setTimeout(() => setError(null), 5000)
    sosActive,
    sosToken,                \* <<>> (null) or <<token>>
    sosIntervalRef,          \* 0 (null) or the id setInterval returned
    sosIntervals,            \* live intervals, each with the token its
                             \* callback closed over
    sosActivations,          \* activateSOS calls awaited
    sosDeactivations,        \* deactivateSOS calls awaited, by token
    positionRequests,        \* getCurrentPosition lookups pending
    updates,                 \* tokens of the updateLocation calls sent
    deactivated,             \* tokens the SOS service has deactivated
    nSos,                    \* activations started so far
    nPositionRequests        \* position lookups started so far

pageVars == <<mounted, errorTimeouts>>

sosVars == <<sosActive, sosToken, sosIntervalRef, sosIntervals, sosActivations,
             sosDeactivations, positionRequests, updates, deactivated, nSos,
             nPositionRequests>>

inputVars == <<start, end, mode, currentLocation, typed>>

routeVars == <<route, routeInfo, loading, error, routeCall, nRouteCalls>>

journeyVars == <<journeyStarted, showReviewModal>>

monitorVars == <<monitoringIntervalRef, intervals, checks, nChecks>>

alertVars == <<alertResponse, rerouteTriggered>>

serviceVars == <<now, last_alert_time>>

cvars == <<backendConnected, inputVars, routeVars, journeyVars, monitorVars,
           alertVars, serviceVars, pageVars, sosVars>>

vars == <<wvars, evars, cvars>>

Conditions == {"deviation", "hazard"}

\* the page as mounted, before any effect has run
CInitPage ==
    /\ backendConnected = "null"
    /\ start = <<>>
    /\ end = <<>>
    /\ mode = "safe"
    /\ currentLocation = <<>>
    /\ typed = [f \in {"start_lat", "start_lon", "end_lat", "end_lon"} |-> <<>>]
    /\ route = <<>>
    /\ routeInfo = <<>>
    /\ loading = FALSE
    /\ error = ""
    /\ routeCall = <<>>
    /\ nRouteCalls = 0
    /\ journeyStarted = FALSE
    /\ showReviewModal = FALSE
    /\ monitoringIntervalRef = 0
    /\ intervals = {}
    /\ checks = {}
    /\ nChecks = 0
    /\ alertResponse = <<>>
    /\ rerouteTriggered = FALSE
    /\ now = 0
    /\ last_alert_time = [c \in Conditions |-> -1]
    /\ mounted = TRUE
    /\ errorTimeouts = 0
    /\ sosActive = FALSE
    /\ sosToken = <<>>
    /\ sosIntervalRef = 0
    /\ sosIntervals = {}
    /\ sosActivations = {}
    /\ sosDeactivations = {}
    /\ positionRequests = {}
    /\ updates = <<>>
    /\ deactivated = {}
    /\ nSos = 0
    /\ nPositionRequests = 0

CIdle == CInitPage

NoResponse ==
    [status |-> 0, detail |-> "", route_coords |-> <<>>, nodes |-> <<>>,
     mode_used |-> "", src |-> 0, dst |-> 0]

\* state of the backend process before startup
EInitGlobals ==
    /\ RISK_DATA = <<>>
    /\ NODE_TO_COORDS = <<>>
    /\ G = <<>>
    /\ graph_obj = <<>>
    /\ loadPc = "start"
    /\ req = <<>>
    /\ resp = NoResponse
    /\ routeCopy = <<>>

WIdle == wIn = <<>> /\ wOut = <<>>

EIdle ==
    /\ fileGraph = <<>>
    /\ fileRisk = <<>>
    /\ EInitGlobals

WeightInputs ==
    [mode : Modes, base : 1..MaxBase, ru : 0..MaxRisk, rv : 0..MaxRisk,
     dark : {0, 1}, crowd : Densities]

WInit ==
    /\ wIn \in WeightInputs
    /\ wOut = <<>>
    /\ EIdle
    /\ CIdle

\* calculate_final_edge_weight applied to the drawn edge
CalculateFinalEdgeWeight ==
    /\ wOut = <<>>
    /\ wOut' = <<EdgeWeight(wIn.mode, wIn.base, wIn.ru, wIn.rv, wIn.dark, wIn.crowd)>>
    /\ UNCHANGED <<wIn, evars, cvars>>

WNext == CalculateFinalEdgeWeight

SpecWeight == WInit /\ [][WNext]_vars

(***************************************************************************)
(* load_risk_and_graph_data, run once at startup.  The risk table is read  *)
(* first, then the graph into a temporary, then the coordinate table is    *)
(* built, and the graph is assigned to the global last.  A read that       *)
(* raises ends the function.                                               *)
(***************************************************************************)
LoadRiskData ==
    /\ loadPc = "start"
    /\ RISK_DATA' = fileRisk
    /\ loadPc' = "risk"
    /\ UNCHANGED <<wvars, cvars, fileGraph, fileRisk, NODE_TO_COORDS, G, graph_obj,
                   req, resp, routeCopy>>

LoadRiskDataFails ==
    /\ loadPc = "start"
    /\ loadPc' = "failed"
    /\ UNCHANGED <<wvars, cvars, fileGraph, fileRisk, RISK_DATA, NODE_TO_COORDS, G,
                   graph_obj, req, resp, routeCopy>>

ReadGraph ==
    /\ loadPc = "risk"
    /\ graph_obj' = <<fileGraph>>
    /\ loadPc' = "graph"
    /\ UNCHANGED <<wvars, cvars, fileGraph, fileRisk, RISK_DATA, NODE_TO_COORDS, G,
                   req, resp, routeCopy>>

ReadGraphFails ==
    /\ loadPc = "risk"
    /\ loadPc' = "failed"
    /\ UNCHANGED <<wvars, cvars, fileGraph, fileRisk, RISK_DATA, NODE_TO_COORDS, G,
                   graph_obj, req, resp, routeCopy>>

\* for node, data in graph_obj.nodes(data=True): NODE_TO_COORDS[node] = (y, x)
BuildNodeCoords ==
    /\ loadPc = "graph"
    /\ NODE_TO_COORDS' = [n \in graph_obj[1].nodes |-> NodePos[n]]
    /\ loadPc' = "coords"
    /\ UNCHANGED <<wvars, cvars, fileGraph, fileRisk, RISK_DATA, G, graph_obj, req,
                   resp, routeCopy>>

\* the global a finished load leaves in G
PublishedGraph(obj) == obj

\* G = graph_obj
PublishGraph ==
    /\ loadPc = "coords"
    /\ G' = PublishedGraph(graph_obj)
    /\ loadPc' = "done"
    /\ UNCHANGED <<wvars, cvars, fileGraph, fileRisk, RISK_DATA, NODE_TO_COORDS,
                   graph_obj, req, resp, routeCopy>>

\* get_graph
get_graph == G

(***************************************************************************)
(* POST /route/{mode}                                                      *)
(***************************************************************************)
\* points a request may carry: nodes 1 and 2, a point far off the network
\* whose nearest node is node 4, and a latitude out of range
RequestPoints == {<<0, 0>>, <<0, 8>>, <<60, 8>>, <<91, 0>>}

RequestModes == Modes \cup {"fast"}

\* live crowd densities at the time of a request
CrowdFeeds ==
    { [e \in CandidateEdges |-> IF e = <<3, 4>> THEN "high" ELSE "unknown"],
      [e \in CandidateEdges |-> IF e = <<1, 4>> THEN "medium" ELSE "low"] }

ValidCoord(p) == p[1] >= -90 /\ p[1] <= 90 /\ p[2] >= -180 /\ p[2] <= 180

\* an endpoint that answers every failure with an empty route
ErrorResponseEmptyRoute(code, text, m) ==
    [status |-> 200, detail |-> "", route_coords |-> <<>>, nodes |-> <<>>,
     mode_used |-> m, src |-> 0, dst |-> 0]

ErrorResponse(code, text, m) ==
    [status |-> code, detail |-> text, route_coords |-> <<>>, nodes |-> <<>>,
     mode_used |-> m, src |-> 0, dst |-> 0]

\* an engine that writes the weights into the global graph
GraphAfterRouteInPlace(g, copy) == copy

\* what a route request leaves in the global graph: the weights go to the copy
GraphAfterRoute(g, copy) == g

\* get_safety_route and the endpoint around it: the response, and the
\* weighted copy of the graph the request built
RouteResult(m, sp, ep, h, crowdOf) ==
    IF m \notin Modes
    THEN [resp |-> ErrorResponse(400, "Invalid mode", m), copy |-> <<>>]
    ELSE IF ~ValidCoord(sp) \/ ~ValidCoord(ep)
    THEN [resp |-> ErrorResponse(400, "Invalid coordinates", m), copy |-> <<>>]
    ELSE IF get_graph = <<>>
    THEN [resp |-> ErrorResponse(500, "Graph not loaded", m), copy |-> <<>>]
    ELSE LET g == get_graph[1]
             s == snap_coordinates_to_node(NODE_TO_COORDS, sp)
             t == snap_coordinates_to_node(NODE_TO_COORDS, ep)
             copy == WeightedCopy(g, RISK_DATA, crowdOf, m, h)
             found == Dijkstra(copy.adj, copy.safety_weight, s, t)
             path == found.path
         IN  IF found.raised = "NetworkXNoPath"
             THEN [resp |-> [ErrorResponse(404, "No route found", m)
                               EXCEPT !.src = s, !.dst = t],
                   copy |-> <<copy>>]
             ELSE IF found.raised # ""
             THEN [resp |-> [ErrorResponse(500, "Server error", m)
                               EXCEPT !.src = s, !.dst = t],
                   copy |-> <<copy>>]
             ELSE [resp |-> [status |-> 200, detail |-> "",
                             route_coords |->
                                 [i \in 1..Len(path) |-> NODE_TO_COORDS[path[i]]],
                             nodes |-> path, mode_used |-> m, src |-> s, dst |-> t],
                   copy |-> <<copy>>]

\* a route request arrives at the running server
ReceiveRouteRequest(m, sp, ep, h, crowdOf) ==
    /\ loadPc \in {"done", "failed"}
    /\ req = <<>>
    /\ req' = <<[mode |-> m, start |-> sp, end |-> ep, hour |-> h,
                 crowd |-> crowdOf]>>
    /\ resp' = NoResponse
    /\ routeCopy' = <<>>
    /\ UNCHANGED <<wvars, cvars, fileGraph, fileRisk, RISK_DATA, NODE_TO_COORDS, G,
                   graph_obj, loadPc>>

\* the endpoint computes the route and answers
ServeRouteRequest ==
    /\ req # <<>>
    /\ LET r == RouteResult(req[1].mode, req[1].start, req[1].end,
                            req[1].hour, req[1].crowd)
       IN  /\ resp' = r.resp
           /\ routeCopy' = r.copy
           /\ G' = IF r.copy = <<>> THEN G
                   ELSE <<GraphAfterRoute(G[1], r.copy[1])>>
    /\ req' = <<>>
    /\ UNCHANGED <<wvars, cvars, fileGraph, fileRisk, RISK_DATA, NODE_TO_COORDS,
                   graph_obj, loadPc>>

EInit ==
    /\ WIdle
    /\ fileGraph \in GraphFiles
    /\ fileRisk \in RiskFiles
    /\ EInitGlobals
    /\ CIdle

ENext ==
    \/ LoadRiskData
    \/ LoadRiskDataFails
    \/ ReadGraph
    \/ ReadGraphFails
    \/ BuildNodeCoords
    \/ PublishGraph
    \/ \E m \in RequestModes, sp \in RequestPoints, ep \in RequestPoints,
          h \in Hours, crowdOf \in CrowdFeeds :
          ReceiveRouteRequest(m, sp, ep, h, crowdOf)
    \/ ServeRouteRequest

SpecEngine == EInit /\ [][ENext]_vars

(***************************************************************************)
(* MapApp against a backend whose startup has ended: the data is loaded,   *)
(* or the load failed after the risk table and left G unset.               *)
(***************************************************************************)
MaxRouteCalls == 2

MaxChecks == 2

MaxTime == 2

MaxErrorTimeouts == 1

MaxSos == 2

MaxPositionRequests == 2

\* the network and risk table the page's backend serves
ServedGraph ==
    [nodes |-> Nodes, edges |-> CandidateEdges,
     travel_time |-> [e \in CandidateEdges |-> IF e = <<1, 4>> THEN MaxBase ELSE 1],
     adj |-> [v \in Nodes |-> Ascending({u \in Nodes : <<v, u>> \in CandidateEdges})]]

ServedRisk == [nh \in Nodes \X Hours |-> IF nh[1] = 4 THEN MaxRisk ELSE 0]

\* positions the browser's geolocation may report: a point of the segment
\* from node 3 to node 4, nearest to node 3
GeoFixes == {<<8, 3>>}

\* positions the browser may report while SOS is active: a point further
\* along the same segment
SosFixes == {<<8, 5>>}

\* places the traveller may pick as start
StartPoints == {<<0, 0>>}

\* places the traveller may pick as destination
EndPoints == {<<9, 8>>}

\* modes the traveller picks
PickedModes == {"safe", "stealth"}

\* useEffect: checkBackend, healthCheck answered
HealthCheckSucceeds ==
    /\ mounted
    /\ backendConnected = "null"
    /\ backendConnected' = "true"
    /\ UNCHANGED <<wvars, evars, pageVars, sosVars, inputVars, routeVars, journeyVars,
                   monitorVars, alertVars, serviceVars>>

\* useEffect: checkBackend, healthCheck rejected
HealthCheckFails ==
    /\ mounted
    /\ backendConnected = "null"
    /\ backendConnected' = "false"
    /\ error' = "Backend server is not reachable"
    /\ UNCHANGED <<wvars, evars, pageVars, sosVars, inputVars, route, routeInfo, loading,
                   routeCall, nRouteCalls, journeyVars, monitorVars, alertVars,
                   serviceVars>>

\* useEffect: getCurrentPosition success callback; the callback closed over
\* the start of the first render, which is null
GeolocationFix(p) ==
    /\ mounted
    /\ currentLocation = <<>>
    /\ currentLocation' = <<p>>
    /\ start' = <<p>>
    /\ UNCHANGED <<wvars, evars, pageVars, sosVars, backendConnected, end, mode, typed, routeVars,
                   journeyVars, monitorVars, alertVars, serviceVars>>

\* a start suggestion is clicked
SetStart(p) ==
    /\ mounted
    /\ start # <<p>>
    /\ start' = <<p>>
    /\ UNCHANGED <<wvars, evars, pageVars, sosVars, backendConnected, end, mode, typed,
                   currentLocation, routeVars, journeyVars, monitorVars,
                   alertVars, serviceVars>>

\* a destination suggestion is clicked
SetEnd(p) ==
    /\ mounted
    /\ end # <<p>>
    /\ end' = <<p>>
    /\ UNCHANGED <<wvars, evars, pageVars, sosVars, backendConnected, start, mode, typed,
                   currentLocation, routeVars, journeyVars, monitorVars,
                   alertVars, serviceVars>>

\* a mode button is clicked
SetMode(m) ==
    /\ mounted
    /\ mode # m
    /\ mode' = m
    /\ UNCHANGED <<wvars, evars, pageVars, sosVars, backendConnected, start, end, typed,
                   currentLocation, routeVars, journeyVars, monitorVars,
                   alertVars, serviceVars>>

\* a button that stays enabled while a calculation is loading
CalculateRouteEnabledWhileLoading(isLoading, s, e, connected) ==
    s # <<>> /\ e # <<>> /\ connected # "false"

\* the Calculate Route button is enabled
CalculateRouteEnabled(isLoading, s, e, connected) ==
    ~isLoading /\ s # <<>> /\ e # <<>> /\ connected # "false"

\* handleCalculateRoute up to the await
ClickCalculateRoute ==
    /\ mounted
    /\ CalculateRouteEnabled(loading, start, end, backendConnected)
    /\ nRouteCalls < MaxRouteCalls
    /\ loading' = TRUE
    /\ error' = ""
    /\ route' = <<>>
    /\ routeInfo' = <<>>
    /\ routeCall' = <<[mode |-> mode, start |-> start[1], end |-> end[1],
                       currentLocation |-> currentLocation]>>
    /\ nRouteCalls' = nRouteCalls + 1
    /\ UNCHANGED <<wvars, evars, pageVars, sosVars, backendConnected, inputVars, journeyVars,
                   monitorVars, alertVars, serviceVars>>

\* startMonitoring: the previous interval is cleared, a new one is set whose
\* callback closes over routeCoords and over currentLocation and mode of the
\* render that started the calculation
startMonitoring(routeCoords, call) ==
    /\ intervals' = {iv \in intervals : iv.id # monitoringIntervalRef}
                      \cup {[id |-> nRouteCalls, routeCoords |-> routeCoords,
                             currentLocation |-> call.currentLocation,
                             mode |-> call.mode]}
    /\ monitoringIntervalRef' = nRouteCalls

\* a catch block without the finally: the loading flag stays set
RouteFailedStillLoading(message) ==
    /\ error' = message
    /\ route' = <<>>
    /\ routeInfo' = <<>>
    /\ loading' = loading
    /\ routeCall' = <<>>
    /\ UNCHANGED <<monitoringIntervalRef, intervals>>

\* a catch block that does not show the error
RouteFailedSilently(message) ==
    /\ error' = error
    /\ route' = <<>>
    /\ routeInfo' = <<>>
    /\ loading' = FALSE
    /\ routeCall' = <<>>
    /\ UNCHANGED <<monitoringIntervalRef, intervals>>

\* handleCalculateRoute after the await, the catch block
RouteFailed(message) ==
    /\ error' = message
    /\ route' = <<>>
    /\ routeInfo' = <<>>
    /\ loading' = FALSE
    /\ routeCall' = <<>>
    /\ UNCHANGED <<monitoringIntervalRef, intervals>>

\* a handler without the check for empty coordinates
RouteResponseArrivesUnchecked(r) ==
    IF r.status # 200
    THEN RouteFailed(r.detail)
    ELSE /\ route' = r.route_coords
         /\ routeInfo' = <<[mode |-> r.mode_used]>>
         /\ startMonitoring(r.route_coords, routeCall[1])
         /\ loading' = FALSE
         /\ routeCall' = <<>>
         /\ UNCHANGED error

\* a handler that labels the route with the mode selected on the page
RouteResponseArrivesSelectedMode(r) ==
    IF r.status # 200
    THEN RouteFailed(r.detail)
    ELSE IF Len(r.route_coords) = 0
    THEN RouteFailed("Route calculation returned empty coordinates")
    ELSE /\ route' = r.route_coords
         /\ routeInfo' = <<[mode |-> mode]>>
         /\ startMonitoring(r.route_coords, routeCall[1])
         /\ loading' = FALSE
         /\ routeCall' = <<>>
         /\ UNCHANGED error

\* handleCalculateRoute after the await, given the answer r of the endpoint
RouteResponseArrives(r) ==
    IF r.status # 200
    THEN RouteFailed(r.detail)
    ELSE IF Len(r.route_coords) = 0
    THEN RouteFailed("Route calculation returned empty coordinates")
    ELSE /\ route' = r.route_coords
         /\ routeInfo' = <<[mode |-> r.mode_used]>>
         /\ startMonitoring(r.route_coords, routeCall[1])
         /\ loading' = FALSE
         /\ routeCall' = <<>>
         /\ UNCHANGED error

\* handleCalculateRoute after the await: the route endpoint has answered
RouteCallReturns(h, crowdOf) ==
    /\ mounted
    /\ routeCall # <<>>
    /\ LET call == routeCall[1]
       IN  RouteResponseArrives(RouteResult(call.mode, call.start, call.end,
                                           h, crowdOf).resp)
    /\ UNCHANGED <<wvars, evars, pageVars, sosVars, backendConnected, inputVars, nRouteCalls,
                   journeyVars, checks, nChecks, alertVars, serviceVars>>

\* handleCalculateRoute after the await: the answer is a success without
\* coordinates
RouteCallReturnsNoCoordinates ==
    /\ mounted
    /\ routeCall # <<>>
    /\ RouteResponseArrives([NoResponse EXCEPT !.status = 200,
                                               !.mode_used = routeCall[1].mode])
    /\ UNCHANGED <<wvars, evars, pageVars, sosVars, backendConnected, inputVars, nRouteCalls,
                   journeyVars, checks, nChecks, alertVars, serviceVars>>

\* handleCalculateRoute after the await: timeout or network error
RouteCallFails ==
    /\ mounted
    /\ routeCall # <<>>
    /\ RouteFailed("Request timeout")
    /\ UNCHANGED <<wvars, evars, pageVars, sosVars, backendConnected, inputVars, nRouteCalls,
                   journeyVars, checks, nChecks, alertVars, serviceVars>>

\* an interval callback that reads the mode selected on the page
MonitorTickSelectedMode(iv) ==
    /\ iv \in intervals
    /\ iv.currentLocation # <<>>
    /\ Len(iv.routeCoords) # 0
    /\ nChecks < MaxChecks
    /\ nChecks' = nChecks + 1
    /\ checks' = checks \cup
         {[seq |-> nChecks + 1, current |-> iv.currentLocation[1],
           planned_route_coords |-> iv.routeCoords, mode_used |-> mode,
           phase |-> "sent", result |-> NoAlert, at |-> 0]}
    /\ UNCHANGED <<wvars, evars, pageVars, sosVars, backendConnected, inputVars, routeVars,
                   journeyVars, monitoringIntervalRef, intervals, alertVars,
                   serviceVars>>

\* the interval callback up to the await: the check is sent
MonitorTick(iv) ==
    /\ iv \in intervals
    /\ iv.currentLocation # <<>>
    /\ Len(iv.routeCoords) # 0
    /\ nChecks < MaxChecks
    /\ nChecks' = nChecks + 1
    /\ checks' = checks \cup
         {[seq |-> nChecks + 1, current |-> iv.currentLocation[1],
           planned_route_coords |-> iv.routeCoords, mode_used |-> iv.mode,
           phase |-> "sent", result |-> NoAlert, at |-> 0]}
    /\ UNCHANGED <<wvars, evars, pageVars, sosVars, backendConnected, inputVars, routeVars,
                   journeyVars, monitoringIntervalRef, intervals, alertVars,
                   serviceVars>>

\* POST /alerts/check-status served
ServeCheckStatus(c, h) ==
    /\ c \in checks
    /\ c.phase = "sent"
    /\ IF get_graph = <<>>
       THEN /\ checks' = (checks \ {c}) \cup {[c EXCEPT !.phase = "refused"]}
            /\ UNCHANGED last_alert_time
       ELSE LET a == CheckStatus(c.current, c.planned_route_coords,
                                 NODE_TO_COORDS, RISK_DATA, h,
                                 last_alert_time, now)
            IN  /\ checks' = (checks \ {c})
                     \cup {[c EXCEPT !.phase = "answered", !.result = a,
                                     !.at = now]}
                /\ last_alert_time' =
                     IF a.alert_type = "" THEN last_alert_time
                     ELSE [last_alert_time EXCEPT ![a.alert_type] = now]
    /\ UNCHANGED <<wvars, evars, pageVars, sosVars, backendConnected, inputVars, routeVars,
                   journeyVars, monitoringIntervalRef, intervals, nChecks,
                   alertVars, now>>

\* the interval callback after the await
CheckReturns(c) ==
    /\ mounted
    /\ c \in checks
    /\ c.phase \in {"answered", "refused"}
    /\ checks' = checks \ {c}
    /\ IF c.phase = "answered" /\ c.result.alert_type # ""
       THEN /\ alertResponse' = <<c.result>>
            /\ rerouteTriggered' = FALSE
       ELSE UNCHANGED <<alertResponse, rerouteTriggered>>
    /\ UNCHANGED <<wvars, evars, pageVars, sosVars, backendConnected, inputVars, routeVars,
                   journeyVars, monitoringIntervalRef, intervals, nChecks,
                   serviceVars>>

\* the route the Reroute Now button puts in place: the button only clears
\* the alert
RouteAfterReroute(r) == r

\* Reroute Now, shown for an alert with action_required
ClickRerouteNow ==
    /\ mounted
    /\ alertResponse # <<>>
    /\ alertResponse[1].action_required
    /\ alertResponse' = <<>>
    /\ rerouteTriggered' = TRUE
    /\ route' = RouteAfterReroute(route)
    /\ UNCHANGED <<wvars, evars, pageVars, sosVars, backendConnected, inputVars, routeInfo,
                   loading, error, routeCall, nRouteCalls, journeyVars,
                   monitorVars, serviceVars>>

\* the X button of the alert banner
DismissAlert ==
    /\ mounted
    /\ alertResponse # <<>>
    /\ alertResponse' = <<>>
    /\ UNCHANGED <<wvars, evars, pageVars, sosVars, backendConnected, inputVars, routeVars,
                   journeyVars, monitorVars, rerouteTriggered,
                   serviceVars>>

\* Start Journey, shown for a route and a journey not started
handleStartJourney ==
    /\ mounted
    /\ Len(route) > 0
    /\ ~journeyStarted
    /\ journeyStarted' = TRUE
    /\ UNCHANGED <<wvars, evars, pageVars, sosVars, backendConnected, inputVars, routeVars,
                   showReviewModal, monitorVars, alertVars, serviceVars>>

\* End Journey, shown for a started journey
handleEndJourney ==
    /\ mounted
    /\ journeyStarted
    /\ journeyStarted' = FALSE
    /\ showReviewModal' = TRUE
    /\ intervals' = {iv \in intervals : iv.id # monitoringIntervalRef}
    /\ UNCHANGED <<wvars, evars, pageVars, sosVars, backendConnected, inputVars, routeVars,
                   monitoringIntervalRef, checks, nChecks, alertVars,
                   serviceVars>>

\* handleSubmitReview, feedback accepted
handleSubmitReview ==
    /\ mounted
    /\ showReviewModal
    /\ showReviewModal' = FALSE
    /\ route' = <<>>
    /\ routeInfo' = <<>>
    /\ UNCHANGED <<wvars, evars, pageVars, sosVars, backendConnected, inputVars, loading, error,
                   routeCall, nRouteCalls, journeyStarted, monitorVars,
                   alertVars, serviceVars>>

\* the review modal is closed without feedback
CloseReviewModal ==
    /\ mounted
    /\ showReviewModal
    /\ showReviewModal' = FALSE
    /\ UNCHANGED <<wvars, evars, pageVars, sosVars, backendConnected, inputVars, routeVars,
                   journeyStarted, monitorVars, alertVars, serviceVars>>

\* handleCalculateRoute called with the start or the end missing: the
\* button is disabled then, the branch serves any other caller
CalculateRouteWithoutPoints(message) ==
    /\ mounted
    /\ start = <<>> \/ end = <<>>
    /\ errorTimeouts < MaxErrorTimeouts
    /\ error' = message
    /\ errorTimeouts' = errorTimeouts + 1
    /\ UNCHANGED <<wvars, evars, mounted, sosVars, backendConnected, inputVars,
                   route, routeInfo, loading, routeCall, nRouteCalls,
                   journeyVars, monitorVars, alertVars, serviceVars>>

\* the timeout set by that branch fires
ErrorTimeoutFires ==
    /\ errorTimeouts > 0
    /\ errorTimeouts' = errorTimeouts - 1
    /\ error' = IF mounted THEN "" ELSE error
    /\ UNCHANGED <<wvars, evars, mounted, sosVars, backendConnected, inputVars,
                   route, routeInfo, loading, routeCall, nRouteCalls,
                   journeyVars, monitorVars, alertVars, serviceVars>>

\* the cleanup of the page's last effect: both refs' intervals are cleared
Unmount ==
    /\ mounted
    /\ mounted' = FALSE
    /\ intervals' = {iv \in intervals : iv.id # monitoringIntervalRef}
    /\ sosIntervals' = {iv \in sosIntervals : iv.id # sosIntervalRef}
    /\ UNCHANGED <<wvars, evars, errorTimeouts, backendConnected, inputVars,
                   routeVars, journeyVars, monitoringIntervalRef, checks,
                   nChecks, alertVars, serviceVars, sosActive, sosToken,
                   sosIntervalRef, sosActivations, sosDeactivations,
                   positionRequests, updates, deactivated, nSos,
                   nPositionRequests>>

\* handleCalculateRoute after the await on a page that has been unmounted:
\* the state setters do nothing, startMonitoring sets its interval
RouteCallReturnsUnmounted(h, crowdOf) ==
    /\ ~mounted
    /\ routeCall # <<>>
    /\ LET call == routeCall[1]
           r == RouteResult(call.mode, call.start, call.end, h, crowdOf).resp
       IN  IF r.status = 200 /\ Len(r.route_coords) # 0
           THEN startMonitoring(r.route_coords, call)
           ELSE UNCHANGED <<monitoringIntervalRef, intervals>>
    /\ routeCall' = <<>>
    /\ UNCHANGED <<wvars, evars, pageVars, sosVars, backendConnected,
                   inputVars, route, routeInfo, loading, error, nRouteCalls,
                   journeyVars, checks, nChecks, alertVars, serviceVars>>

\* handleActivateSOS up to the await; the button is shown while SOS is not
\* active and enabled once a position is known
handleActivateSOS ==
    /\ mounted
    /\ ~sosActive
    /\ currentLocation # <<>>
    /\ nSos < MaxSos
    /\ nSos' = nSos + 1
    /\ sosActivations' = sosActivations \cup {nSos + 1}
    /\ UNCHANGED <<wvars, evars, pageVars, backendConnected, inputVars,
                   routeVars, journeyVars, monitorVars, alertVars, serviceVars,
                   sosActive, sosToken, sosIntervalRef, sosIntervals,
                   sosDeactivations, positionRequests, updates, deactivated,
                   nPositionRequests>>

\* handleActivateSOS after the await: the service answered with the token of
\* this activation; the interval is set without clearing sosIntervalRef
ActivateSOSReturns(a) ==
    /\ a \in sosActivations
    /\ sosActivations' = sosActivations \ {a}
    /\ sosActive' = IF mounted THEN TRUE ELSE sosActive
    /\ sosToken' = IF mounted THEN <<a>> ELSE sosToken
    /\ sosIntervals' = sosIntervals \cup {[id |-> a, token |-> a]}
    /\ sosIntervalRef' = a
    /\ UNCHANGED <<wvars, evars, pageVars, backendConnected, inputVars,
                   routeVars, journeyVars, monitorVars, alertVars, serviceVars,
                   sosDeactivations, positionRequests, updates, deactivated,
                   nSos, nPositionRequests>>

\* handleActivateSOS after the await, the catch block
ActivateSOSFails(a) ==
    /\ a \in sosActivations
    /\ sosActivations' = sosActivations \ {a}
    /\ UNCHANGED <<wvars, evars, pageVars, backendConnected, inputVars,
                   routeVars, journeyVars, monitorVars, alertVars, serviceVars,
                   sosActive, sosToken, sosIntervalRef, sosIntervals,
                   sosDeactivations, positionRequests, updates, deactivated,
                   nSos, nPositionRequests>>

\* the SOS interval callback: getCurrentPosition is called
SosTick(iv) ==
    /\ iv \in sosIntervals
    /\ nPositionRequests < MaxPositionRequests
    /\ nPositionRequests' = nPositionRequests + 1
    /\ positionRequests' = positionRequests
         \cup {[seq |-> nPositionRequests + 1, token |-> iv.token]}
    /\ UNCHANGED <<wvars, evars, pageVars, backendConnected, inputVars,
                   routeVars, journeyVars, monitorVars, alertVars, serviceVars,
                   sosActive, sosToken, sosIntervalRef, sosIntervals,
                   sosActivations, sosDeactivations, updates, deactivated,
                   nSos>>

\* the success callback of getCurrentPosition: the position is stored and
\* updateLocation is sent with the token of the activation
PositionFound(pr, p) ==
    /\ pr \in positionRequests
    /\ positionRequests' = positionRequests \ {pr}
    /\ currentLocation' = IF mounted THEN <<p>> ELSE currentLocation
    /\ updates' = Append(updates, pr.token)
    /\ UNCHANGED <<wvars, evars, pageVars, backendConnected, start, end, mode,
                   typed, routeVars, journeyVars, monitorVars, alertVars,
                   serviceVars, sosActive, sosToken, sosIntervalRef,
                   sosIntervals, sosActivations, sosDeactivations, deactivated,
                   nSos, nPositionRequests>>

\* the error callback of getCurrentPosition
PositionError(pr) ==
    /\ pr \in positionRequests
    /\ positionRequests' = positionRequests \ {pr}
    /\ UNCHANGED <<wvars, evars, pageVars, backendConnected, inputVars,
                   routeVars, journeyVars, monitorVars, alertVars, serviceVars,
                   sosActive, sosToken, sosIntervalRef, sosIntervals,
                   sosActivations, sosDeactivations, updates, deactivated,
                   nSos, nPositionRequests>>

\* handleDeactivateSOS up to the await; the button is shown while SOS is
\* active
handleDeactivateSOS ==
    /\ mounted
    /\ sosActive
    /\ sosToken # <<>>
    /\ sosDeactivations' = sosDeactivations \cup {sosToken[1]}
    /\ UNCHANGED <<wvars, evars, pageVars, backendConnected, inputVars,
                   routeVars, journeyVars, monitorVars, alertVars, serviceVars,
                   sosActive, sosToken, sosIntervalRef, sosIntervals,
                   sosActivations, positionRequests, updates, deactivated,
                   nSos, nPositionRequests>>

\* handleDeactivateSOS after the await: the service deactivated the token;
\* the interval of sosIntervalRef is cleared, the ref keeps the id
DeactivateSOSReturns(t) ==
    /\ t \in sosDeactivations
    /\ sosDeactivations' = sosDeactivations \ {t}
    /\ deactivated' = deactivated \cup {t}
    /\ sosActive' = IF mounted THEN FALSE ELSE sosActive
    /\ sosToken' = IF mounted THEN <<>> ELSE sosToken
    /\ sosIntervals' = {iv \in sosIntervals : iv.id # sosIntervalRef}
    /\ UNCHANGED <<wvars, evars, pageVars, backendConnected, inputVars,
                   routeVars, journeyVars, monitorVars, alertVars, serviceVars,
                   sosIntervalRef, sosActivations, positionRequests, updates,
                   nSos, nPositionRequests>>

\* handleDeactivateSOS after the await, the catch block
DeactivateSOSFails(t) ==
    /\ t \in sosDeactivations
    /\ sosDeactivations' = sosDeactivations \ {t}
    /\ UNCHANGED <<wvars, evars, pageVars, backendConnected, inputVars,
                   routeVars, journeyVars, monitorVars, alertVars, serviceVars,
                   sosActive, sosToken, sosIntervalRef, sosIntervals,
                   sosActivations, positionRequests, updates, deactivated,
                   nSos, nPositionRequests>>

\* time passes at the alert service
AdvanceClock ==
    /\ now < MaxTime
    /\ now' = now + 1
    /\ UNCHANGED <<wvars, evars, pageVars, sosVars, backendConnected, inputVars, routeVars,
                   journeyVars, monitorVars, alertVars, last_alert_time>>

\* the backend after a finished load, or after a load that failed reading
\* the graph
BackendLoaded ==
    /\ fileGraph = ServedGraph
    /\ fileRisk = ServedRisk
    /\ RISK_DATA = ServedRisk
    /\ graph_obj = <<>>
    /\ req = <<>>
    /\ resp = NoResponse
    /\ routeCopy = <<>>
    /\ \/ /\ loadPc = "done"
          /\ G = <<ServedGraph>>
          /\ NODE_TO_COORDS = [n \in Nodes |-> NodePos[n]]
       \/ /\ loadPc = "failed"
          /\ G = <<>>
          /\ NODE_TO_COORDS = <<>>

Init ==
    /\ WIdle
    /\ BackendLoaded
    /\ CInitPage

Next ==
    \/ HealthCheckSucceeds
    \/ HealthCheckFails
    \/ \E p \in GeoFixes : GeolocationFix(p)
    \/ \E p \in StartPoints : SetStart(p)
    \/ \E p \in EndPoints : SetEnd(p)
    \/ \E m \in PickedModes : SetMode(m)
    \/ ClickCalculateRoute
    \/ \E h \in Hours, crowdOf \in CrowdFeeds : RouteCallReturns(h, crowdOf)
    \/ RouteCallFails
    \/ \E iv \in intervals : MonitorTick(iv)
    \/ \E c \in checks, h \in Hours : ServeCheckStatus(c, h)
    \/ \E c \in checks : CheckReturns(c)
    \/ ClickRerouteNow
    \/ DismissAlert
    \/ handleStartJourney
    \/ handleEndJourney
    \/ handleSubmitReview
    \/ CloseReviewModal

Spec == Init /\ [][Next]_vars

(***************************************************************************)
(* The alert service called directly: any position against any route, at   *)
(* any time.                                                               *)
(***************************************************************************)

\* positions a caller may report
MonitorPoints == {<<8, 3>>, <<4, 4>>, <<4, 1>>}

\* planned routes a caller may send: the coordinates of paths of the graph
MonitorRoutes ==
    {<<NodePos[1], NodePos[3], NodePos[4]>>, <<NodePos[1], NodePos[4]>>,
     <<NodePos[1], NodePos[2]>>}

\* checkSafetyStatus: the request is posted
PostCheckStatus(p, coords, m) ==
    /\ nChecks < MaxChecks
    /\ nChecks' = nChecks + 1
    /\ checks' = checks \cup
         {[seq |-> nChecks + 1, current |-> p, planned_route_coords |-> coords,
           mode_used |-> m, phase |-> "sent", result |-> NoAlert, at |-> 0]}
    /\ UNCHANGED <<wvars, evars, pageVars, sosVars, backendConnected, inputVars, routeVars,
                   journeyVars, monitoringIntervalRef, intervals, alertVars,
                   serviceVars>>

MInit ==
    /\ WIdle
    /\ BackendLoaded
    /\ loadPc = "done"
    /\ CInitPage

MNext ==
    \/ \E p \in MonitorPoints, coords \in MonitorRoutes :
          PostCheckStatus(p, coords, mode)
    \/ \E c \in checks, h \in Hours : ServeCheckStatus(c, h)
    \/ \E c \in checks : CheckReturns(c)
    \/ AdvanceClock

SpecMonitor == MInit /\ [][MNext]_vars

(***************************************************************************)
(* The Home page: the start and end point are typed into number inputs.    *)
(***************************************************************************)
Fields == {"start_lat", "start_lon", "end_lat", "end_lon"}

\* texts a traveller may type into a coordinate field: a number, a text
\* that is no number and, for a latitude, a number out of range
HomeTexts(f) ==
    IF f \in {"start_lat", "end_lat"} THEN {"8", "abc", "91"} ELSE {"8", "abc"}

\* the texts that are numbers, with their values
TextValue == ("8" :> 8) @@ ("91" :> 91)

\* e.target.value of an input of type number: empty unless the text is a number
InputValue(text) == IF text \in DOMAIN TextValue THEN text ELSE ""

\* parseFloat: <<>> stands for NaN
parseFloat(v) == IF v \in DOMAIN TextValue THEN <<TextValue[v]>> ELSE <<>>

\* x || 0
OrZero(x) == IF x = <<>> \/ x[1] = 0 THEN 0 ELSE x[1]

\* onChange of a coordinate input: the other coordinate is kept, or 0
TypeCoordinate(f, text) ==
    /\ typed' = [typed EXCEPT ![f] = <<text>>]
    /\ LET n == OrZero(parseFloat(InputValue(text)))
           lat(prev) == IF prev = <<>> THEN 0 ELSE prev[1][1]
           lon(prev) == IF prev = <<>> THEN 0 ELSE prev[1][2]
       IN  CASE f = "start_lat" -> start' = <<<<n, lon(start)>>>> /\ UNCHANGED end
             [] f = "start_lon" -> start' = <<<<lat(start), n>>>> /\ UNCHANGED end
             [] f = "end_lat"   -> end' = <<<<n, lon(end)>>>> /\ UNCHANGED start
             [] f = "end_lon"   -> end' = <<<<lat(end), n>>>> /\ UNCHANGED start
    /\ UNCHANGED <<wvars, evars, pageVars, sosVars, backendConnected, mode, currentLocation,
                   routeVars, journeyVars, monitorVars, alertVars, serviceVars>>

\* Home: handleCalculateRoute up to the await; the previous route stays
HomeClickCalculateRoute ==
    /\ CalculateRouteEnabled(loading, start, end, backendConnected)
    /\ nRouteCalls < MaxRouteCalls
    /\ loading' = TRUE
    /\ error' = ""
    /\ routeCall' = <<[mode |-> mode, start |-> start[1], end |-> end[1],
                       currentLocation |-> currentLocation, typed |-> typed]>>
    /\ nRouteCalls' = nRouteCalls + 1
    /\ UNCHANGED <<wvars, evars, pageVars, sosVars, backendConnected, inputVars, route, routeInfo,
                   journeyVars, monitorVars, alertVars, serviceVars>>

HNext ==
    \/ \E f \in Fields : \E text \in HomeTexts(f) : TypeCoordinate(f, text)
    \/ HomeClickCalculateRoute
    \/ \E h \in Hours, crowdOf \in CrowdFeeds : RouteCallReturns(h, crowdOf)
    \/ RouteCallFails

SpecHome == Init /\ [][HNext]_vars

\* the text is a number within the range of its field
WellFormed(f, text) ==
    /\ text \in DOMAIN TextValue
    /\ IF f \in {"start_lat", "end_lat"}
       THEN TextValue[text] >= -90 /\ TextValue[text] <= 90
       ELSE TextValue[text] >= -180 /\ TextValue[text] <= 180

\* C11: a route request answered with a route carried no coordinate that
\* was typed malformed or out of range
C11_BadInputRejected ==
    [][(routeCall # <<>> /\ routeCall' = <<>> /\ route' # <<>>)
       => \A f \in Fields :
            routeCall[1].typed[f] # <<>> => WellFormed(f, routeCall[1].typed[f][1])]_vars

\* C1: every weight the calculator produces for a low, medium or high crowd
\* density is strictly positive
C1_WeightPositive ==
    (wOut # <<>> /\ wIn.crowd \in {"low", "medium", "high"}) => wOut[1] > 0

\* C2: the path a successful route request returns has the least total cost
\* under the request's weights among all paths from start node to end node
C2_PathMinimal ==
    resp.status = 200 =>
        PathCost(routeCopy[1].safety_weight, resp.nodes)
          = MinOf(SimplePathCosts(routeCopy[1].edges, routeCopy[1].safety_weight,
                                  resp.src, resp.dst, {resp.src}))

\* the journey status the page shows
JourneyStatus(alert, started, ended, r) ==
    IF alert # <<>>
    THEN IF alert[1].alert_type = "deviation" THEN "Deviated" ELSE "HazardDetected"
    ELSE IF started THEN "Active"
    ELSE IF ended THEN "Completed"
    ELSE IF r # <<>> THEN "Planned"
    ELSE "None"

\* the steps of the monitor's state machine; a journey that has ended may
\* be followed by a new plan
StatusStep(a, b) ==
    \/ a = b
    \/ a = "None" /\ b = "Planned"
    \/ a = "Planned" /\ b \in {"None", "Active"}
    \/ a = "Active" /\ b \in {"Deviated", "HazardDetected", "Completed"}
    \/ a \in {"Deviated", "HazardDetected"} /\ b = "Active"
    \/ a = "Completed" /\ b \in {"None", "Planned"}

\* C3: the journey status changes only along the monitor's state machine
C3_StatusMachine ==
    [][StatusStep(JourneyStatus(alertResponse, journeyStarted, showReviewModal, route),
                  JourneyStatus(alertResponse', journeyStarted', showReviewModal', route'))]_vars

\* C4: two answers of the alert service that carry an alert for the same
\* condition are at least one cooldown window apart
C4_OneAlertPerWindow ==
    \A c1 \in checks : \A c2 \in checks :
        (/\ c1.seq # c2.seq
         /\ c1.phase = "answered" /\ c2.phase = "answered"
         /\ c1.result.alert_type # ""
         /\ c1.result.alert_type = c2.result.alert_type
         /\ c1.at <= c2.at)
        => c2.at - c1.at >= Cooldown

\* a sustained deviation: the first check raised the alert, a repeated
\* identical check within the window did not raise it again
C4_Witness ==
    \E c1 \in checks : \E c2 \in checks :
        /\ c1.seq # c2.seq
        /\ c1.phase = "answered" /\ c2.phase = "answered"
        /\ c1.current = c2.current
        /\ c1.planned_route_coords = c2.planned_route_coords
        /\ c1.result.alert_type = "deviation"
        /\ c2.result.alert_type # "deviation"
        /\ c2.at - c1.at < Cooldown /\ c1.at <= c2.at

\* p lies on the segment a-b
OnSegment(p, a, b) ==
    /\ (b[1] - a[1]) * (p[2] - a[2]) = (b[2] - a[2]) * (p[1] - a[1])
    /\ (p[1] - a[1]) * (p[1] - b[1]) <= 0
    /\ (p[2] - a[2]) * (p[2] - b[2]) <= 0

OnPolyline(p, coords) ==
    \/ \E i \in 1..Len(coords) : coords[i] = p
    \/ \E i \in 1..(Len(coords) - 1) : OnSegment(p, coords[i], coords[i + 1])

\* C5: a check whose position lies on the planned route is never answered
\* with a deviation alert
C5_OnRouteNeverDeviated ==
    \A c \in checks :
        (c.phase = "answered" /\ OnPolyline(c.current, c.planned_route_coords))
        => c.result.alert_type # "deviation"

\* a check from a position inside a segment of the route has been answered
C5_Witness ==
    \E c \in checks :
        /\ c.phase = "answered"
        /\ OnPolyline(c.current, c.planned_route_coords)
        /\ \A i \in 1..Len(c.planned_route_coords) :
              c.planned_route_coords[i] # c.current

\* C6: a reroute triggered for an alert with action_required replaces the
\* route by a path from the current position to the destination of the
\* route under the mode of the route, and clears the alert
C6_RerouteReplacesRoute ==
    [][(~rerouteTriggered /\ rerouteTriggered' /\ routeInfo # <<>>
          /\ currentLocation # <<>>)
       => /\ alertResponse' = <<>>
          /\ \E h \in Hours, crowdOf \in CrowdFeeds :
               route' = RouteResult(routeInfo[1].mode, currentLocation[1],
                                    route[Len(route)], h, crowdOf).resp.route_coords]_vars

\* C7: the response of a check never changes the alert once the response of
\* a newer check has come back
C7_LastWriteWins ==
    [][\A c \in checks :
         (c \notin checks' /\ alertResponse' # alertResponse /\ alertResponse' # <<>>)
         => \A n \in (c.seq + 1)..nChecks : \E d \in checks : d.seq = n]_vars

\* C8: the page issues a route request only after the health check has
\* confirmed the backend, and no route is computed while the graph is not
\* loaded
C8_ReadinessGate ==
    /\ [][(routeCall = <<>> /\ routeCall' # <<>>) => backendConnected = "true"]_vars
    /\ [](get_graph = <<>> => (route = <<>> /\ intervals = {}))

\* the nodes that can be reached from the nodes of frontier along edges of E
RECURSIVE ReachableFrom(_, _)
ReachableFrom(E, frontier) ==
    LET more == frontier \cup {e[2] : e \in {d \in E : d[1] \in frontier}}
    IN  IF more = frontier THEN frontier ELSE ReachableFrom(E, more)

\* nothing of the loaded data is visible
NothingPublished == G = <<>> /\ NODE_TO_COORDS = <<>> /\ RISK_DATA = <<>>

\* graph, coordinate table and risk table are visible together
AllPublished ==
    /\ G = <<fileGraph>>
    /\ NODE_TO_COORDS = [n \in fileGraph.nodes |-> NodePos[n]]
    /\ RISK_DATA = fileRisk

\* C9: once startup has ended and requests are served, either nothing of the
\* data is published or all of it is
C9_LoadAtomic == loadPc \in {"done", "failed"} => (NothingPublished \/ AllPublished)

RNext ==
    \/ HealthCheckSucceeds
    \/ HealthCheckFails
    \/ \E p \in GeoFixes : GeolocationFix(p)
    \/ \E p \in StartPoints : SetStart(p)
    \/ \E p \in EndPoints : SetEnd(p)
    \/ \E m \in Modes : SetMode(m)
    \/ ClickCalculateRoute
    \/ \E h \in Hours, crowdOf \in CrowdFeeds : RouteCallReturns(h, crowdOf)
    \/ RouteCallReturnsNoCoordinates
    \/ RouteCallFails

SpecRoute == Init /\ [][RNext]_vars /\ WF_vars(RouteCallFails)

\* C13: a pending route request ends, with a route or with an error message,
\* and the loading flag is false once it has ended
C13_RequestEnds ==
    /\ [][(routeCall # <<>> /\ routeCall' = <<>>)
          => (~loading' /\ (route' # <<>> \/ error' # ""))]_vars
    /\ (loading ~> ~loading)

\* a request that ran into the timeout has ended with the error shown
C13_Witness ==
    /\ nRouteCalls > 0 /\ routeCall = <<>>
    /\ error = "Request timeout" /\ ~loading /\ route = <<>>

(***************************************************************************)
(* Missing risk records                                                    *)
(***************************************************************************)
\* the tables with a record for every (node, hour) pair that agree with
\* riskData where it has one
Completions(riskData) ==
    { full \in [Nodes \X Hours -> {0, MaxRisk}] :
        \A nh \in DOMAIN riskData : full[nh] = riskData[nh] }

\* the positions of a route whose node has no record in RISK_DATA at hour h
MissingOnRoute(nodes, h) ==
    { i \in 1..Len(nodes) : <<nodes[i], h>> \notin DOMAIN RISK_DATA }

SearchOfResponse ==
    Dijkstra(routeCopy[1].adj, routeCopy[1].safety_weight, resp.src, resp.dst)

\* C15: of two nodes settled by a search with the same accumulated cost
\* the one with the lower identifier is settled first
C15_LowerIdSettledFirst ==
    routeCopy # <<>> =>
        LET found == SearchOfResponse
        IN  \A i, j \in 1..Len(found.order) :
                (i < j /\ found.dist[found.order[i]] = found.dist[found.order[j]])
                => found.order[i] < found.order[j]

\* C16: a request that is answered with a route finds a route under every
\* mode, and one answered with "No route found" finds none under any mode
C16_ReachabilityModeIndependent ==
    [][(req # <<>> /\ req' = <<>> /\ routeCopy' # <<>>)
       => \A m \in Modes :
            LET r == req[1]
                other == Dijkstra(G[1].adj,
                                  SafetyWeights(G[1], RISK_DATA, r.crowd, m, r.hour),
                                  resp'.src, resp'.dst)
            IN  /\ resp'.status = 200 => other.raised = ""
                /\ resp'.status = 404 => other.raised = "NetworkXNoPath"]_vars

(***************************************************************************)
(* Crowd direction                                                         *)
(***************************************************************************)
\* the weight of the drawn edge had its crowd density been c
WeightAtDensity(c) ==
    EdgeWeight(wIn.mode, wIn.base, wIn.ru, wIn.rv, wIn.dark, c)

\* the known density levels above the one of the drawn edge
DenserThan(c) == {c2 \in {"low", "medium", "high"} : DensityLevel(c2) > DensityLevel(c)}

\* C17: with the other inputs fixed, a denser crowd never lowers the weight
\* under stealth, never raises it under safe, and under escort low density
\* weighs more than medium or high density
C17_CrowdDirection ==
    (wOut # <<>> /\ wIn.crowd \in {"low", "medium", "high"}) =>
        /\ wIn.mode = "stealth" =>
              \A c \in DenserThan(wIn.crowd) : wOut[1] <= WeightAtDensity(c)
        /\ wIn.mode = "safe" =>
              \A c \in DenserThan(wIn.crowd) : wOut[1] >= WeightAtDensity(c)
        /\ (wIn.mode = "escort" /\ wIn.crowd = "low") =>
              \A c \in DenserThan(wIn.crowd) : wOut[1] > WeightAtDensity(c)

\* the weight of a quiet edge was calculated under stealth, and the same
\* edge crowded weighs more
C17_Witness ==
    /\ wOut # <<>>
    /\ wIn.mode = "stealth" /\ wIn.crowd = "low"
    /\ wOut[1] < WeightAtDensity("high")

(***************************************************************************)
(* Coordinate snapping                                                     *)
(***************************************************************************)
\* the distance beyond which the nearest node is too far to snap to
SnapThreshold == 5

\* squared offset from point p to the node nearest to it
NearestOffset2(p) == MinOf({Dist2(NODE_TO_COORDS[n], p) : n \in DOMAIN NODE_TO_COORDS})

TooFar(p) == NearestOffset2(p) > SnapThreshold * SnapThreshold

\* C18: a served request snapped start and end to their nearest nodes (a
\* point that is a node's coordinate to that node, at offset 0), and a
\* request with a point farther than the threshold from every node is
\* refused without a node or a route
C18_SnapNearestOrFail ==
    [][(req # <<>> /\ req' = <<>> /\ routeCopy' # <<>>)
       => LET sp == req[1].start
              ep == req[1].end
          IN  /\ (~TooFar(sp) /\ ~TooFar(ep)) =>
                    /\ Dist2(NODE_TO_COORDS[resp'.src], sp) = NearestOffset2(sp)
                    /\ Dist2(NODE_TO_COORDS[resp'.dst], ep) = NearestOffset2(ep)
              /\ (TooFar(sp) \/ TooFar(ep)) =>
                    /\ resp'.status # 200
                    /\ resp'.route_coords = <<>>
                    /\ resp'.src = 0 \/ resp'.dst = 0]_vars

(***************************************************************************)
(* The 4-node fixture A, B, C, D (nodes 1 to 4): the direct edge A -> D    *)
(* and the path A -> B -> C -> D, with literal travel times, risk scores   *)
(* and crowd densities, loaded and then routed from A to D.                *)
(***************************************************************************)
FixtureEdges == {<<1, 2>>, <<2, 3>>, <<3, 4>>, <<1, 4>>}

PathEdges == FixtureEdges \ {<<1, 4>>}

\* travel time of the direct edge, and of each edge of the path
FixtureGraphs ==
    { [nodes |-> Nodes, edges |-> FixtureEdges,
       travel_time |-> [e \in FixtureEdges |-> IF e = <<1, 4>> THEN direct ELSE step],
       adj |-> [v \in Nodes |-> Ascending({u \in Nodes : <<v, u>> \in FixtureEdges})]] :
      direct \in {10, 45}, step \in {4, 10, 40} }

\* risk scores: A and D alike, B and C alike, the same at every hour
FixtureRisks ==
    { [nh \in Nodes \X Hours |-> IF nh[1] \in {1, 4} THEN ends ELSE inner] :
      ends \in {0, MaxRisk}, inner \in {0, MaxRisk} }

\* crowd feeds: nothing known, or a medium crowd along the path
FixtureCrowds ==
    { [e \in FixtureEdges |-> "unknown"],
      [e \in FixtureEdges |-> IF e \in PathEdges THEN "medium" ELSE "unknown"] }

FInit ==
    /\ WIdle
    /\ fileGraph \in FixtureGraphs
    /\ fileRisk \in FixtureRisks
    /\ EInitGlobals
    /\ CIdle

FNext ==
    \/ LoadRiskData
    \/ ReadGraph
    \/ BuildNodeCoords
    \/ PublishGraph
    \/ \E m \in {"safe", "balanced"}, h \in Hours, crowdOf \in FixtureCrowds :
          ReceiveRouteRequest(m, NodePos[1], NodePos[4], h, crowdOf)
    \/ ServeRouteRequest

SpecFixture == FInit /\ [][FNext]_vars

\* the risk of an edge: the sum of its endpoint scores at hour h
EdgeRisk(e, h) ==
    get_precomputed_risk_score(RISK_DATA, e[1], h)
      + get_precomputed_risk_score(RISK_DATA, e[2], h)

\* the direct edge is riskier than each edge of the path
HighRiskDirect(h) == \A e \in PathEdges : EdgeRisk(<<1, 4>>, h) > EdgeRisk(e, h)

\* the path takes longer than the direct edge
LongerPath(g) ==
    g.travel_time[<<1, 2>>] + g.travel_time[<<2, 3>>] + g.travel_time[<<3, 4>>]
      > g.travel_time[<<1, 4>>]

\* the nodes of the route the endpoint answers with for mode m
RouteNodes(m, h, crowdOf) == RouteResult(m, NodePos[1], NodePos[4], h, crowdOf).resp.nodes

C20_RouteCoordinates ==
    [][(routeCall # <<>> /\ routeCall' = <<>>)
       => \/ /\ route' = <<>>
             /\ routeInfo' = <<>>
             /\ error' # ""
          \/ /\ Len(route') > 0
             /\ route'[1] = NODE_TO_COORDS[
                    snap_coordinates_to_node(NODE_TO_COORDS, routeCall[1].start)]
             /\ route'[Len(route')] = NODE_TO_COORDS[
                    snap_coordinates_to_node(NODE_TO_COORDS, routeCall[1].end)]]_vars

\* an answer without coordinates has ended a request as a failure
C20_Witness ==
    /\ nRouteCalls > 0 /\ routeCall = <<>>
    /\ error = "Route calculation returned empty coordinates"
    /\ route = <<>> /\ ~loading

(***************************************************************************)
(* The mode label of a route                                               *)
(***************************************************************************)
\* C21: the route a request ends with is labelled with the mode of that
\* request, and the label stays while the route is shown, whatever mode is
\* selected meanwhile
C21_ModeLabel ==
    /\ [][(routeCall # <<>> /\ routeCall' = <<>> /\ route' # <<>>)
          => routeInfo' = <<[mode |-> routeCall[1].mode]>>]_vars
    /\ [][(route # <<>> /\ route' = route) => routeInfo' = routeInfo]_vars

\* a route is shown with the label of its request while another mode is
\* selected
C21_Witness ==
    /\ route # <<>> /\ routeCall = <<>>
    /\ routeInfo # <<>>
    /\ routeInfo[1].mode = "escort"
    /\ mode = "balanced"

\* C23: every check the monitor sends carries the route the page displays
\* at that moment
C23_MonitorChecksDisplayedRoute ==
    [][nChecks' = nChecks + 1
       => \A c \in checks' \ checks : c.planned_route_coords = route]_vars

\* C24: a started journey has a displayed route
C24_JourneyHasRoute == journeyStarted => Len(route) > 0

\* the monitor's interval has been cleared and no other has been set since
MonitorStopped == monitoringIntervalRef # 0 /\ intervals = {}

\* C25: once the monitor is stopped no check is sent, and no answer of a
\* check still in flight puts an alert on display
C25_NoAlertAfterEnd ==
    [][MonitorStopped
       => /\ nChecks' = nChecks
          /\ (alertResponse' # alertResponse => alertResponse' = <<>>)]_vars

\* C30: a route request is started only while none is in flight and the page
\* is not loading, the page is loading exactly while a request is in flight,
\* and a route is put on display only by the answer of the request in flight
C30_SingleRouteRequest ==
    /\ [][nRouteCalls' = nRouteCalls + 1 => (routeCall = <<>> /\ ~loading)]_vars
    /\ [](loading <=> routeCall # <<>>)
    /\ [][(route' # route /\ route' # <<>>)
          => (routeCall # <<>> /\ routeCall' = <<>>
              /\ routeInfo' = <<[mode |-> routeCall[1].mode]>>)]_vars

\* a second request is in flight after the first has been answered with a
\* route
C30_Witness ==
    /\ nRouteCalls = 2
    /\ loading
    /\ routeCall # <<>>
    /\ monitoringIntervalRef = 1

(***************************************************************************)
(* The handler of Calculate Route by itself, on MapApp and on Home: its    *)
(* branch for a missing point, the request, and the request's end.         *)
(***************************************************************************)
MissingPointMessages ==
    {"Please enter both start and end locations",
     "Please set both start and end points"}

HandlerNext ==
    \/ RNext
    \/ HomeClickCalculateRoute
    \/ \E message \in MissingPointMessages : CalculateRouteWithoutPoints(message)
    \/ ErrorTimeoutFires

SpecHandler == Init /\ [][HandlerNext]_vars

(***************************************************************************)
(* The page from mount to unmount: route planning, the monitoring          *)
(* interval and the mode buttons, with requests that outlive the page.     *)
(***************************************************************************)
PageNext ==
    \/ \E p \in GeoFixes : GeolocationFix(p)
    \/ \E p \in EndPoints : SetEnd(p)
    \/ \E m \in PickedModes : SetMode(m)
    \/ ClickCalculateRoute
    \/ \E h \in Hours, crowdOf \in CrowdFeeds : RouteCallReturns(h, crowdOf)
    \/ RouteCallFails
    \/ \E iv \in intervals : MonitorTick(iv)
    \/ Unmount
    \/ \E h \in Hours, crowdOf \in CrowdFeeds :
          RouteCallReturnsUnmounted(h, crowdOf)

SpecPage == Init /\ [][PageNext]_vars

(***************************************************************************)
(* SOS on the page: activation, the location updates of its interval and   *)
(* deactivation, beside a planned route and its monitor.                   *)
(***************************************************************************)
SosNext ==
    \/ \E p \in GeoFixes : GeolocationFix(p)
    \/ \E p \in EndPoints : SetEnd(p)
    \/ ClickCalculateRoute
    \/ \E h \in Hours, crowdOf \in CrowdFeeds : RouteCallReturns(h, crowdOf)
    \/ \E iv \in intervals : MonitorTick(iv)
    \/ handleActivateSOS
    \/ \E a \in sosActivations : ActivateSOSReturns(a)
    \/ \E a \in sosActivations : ActivateSOSFails(a)
    \/ \E iv \in sosIntervals : SosTick(iv)
    \/ \E pr \in positionRequests, p \in SosFixes : PositionFound(pr, p)
    \/ \E pr \in positionRequests : PositionError(pr)
    \/ handleDeactivateSOS
    \/ \E t \in sosDeactivations : DeactivateSOSReturns(t)
    \/ \E t \in sosDeactivations : DeactivateSOSFails(t)

SpecSOS == Init /\ [][SosNext]_vars

\* C22: every check the monitor sends carries the position the page knows
\* at that moment
C22_CheckCarriesLatestPosition ==
    [][nChecks' = nChecks + 1
       => \A c \in checks' \ checks :
            currentLocation # <<>> /\ c.current = currentLocation[1]]_vars

\* C28: no location update is sent with a token the service has
\* deactivated, and SOS is active exactly while the page holds a token
C28_NoUpdateAfterDeactivation ==
    /\ [][Len(updates') > Len(updates)
          => updates'[Len(updates')] \notin deactivated]_vars
    /\ [](sosActive <=> sosToken # <<>>)

\* the half of C28 that holds: SOS is active exactly while the page holds
\* a token
SosActiveIffToken == sosActive <=> sosToken # <<>>

\* C26: at most one monitoring interval is live, and none once the page
\* is unmounted
C26_OneMonitor ==
    /\ Cardinality(intervals) <= 1
    /\ ~mounted => intervals = {}

\* the half of C26 that holds: at most one monitoring interval is live
AtMostOneMonitor == Cardinality(intervals) <= 1

\* C29: a check sent for the displayed route carries the mode the route is
\* labelled with, the mode of its calculation
C29_CheckCarriesRouteMode ==
    [][nChecks' = nChecks + 1
       => \A c \in checks' \ checks :
            (c.planned_route_coords = route /\ routeInfo # <<>>)
               => c.mode_used = routeInfo[1].mode]_vars

\* a check was sent for the displayed route after another mode was selected
C29_Witness ==
    /\ routeInfo # <<>>
    /\ mode # routeInfo[1].mode
    /\ \E c \in checks :
          c.planned_route_coords = route /\ c.mode_used = routeInfo[1].mode

\* a route request ends without a monitor being started: it failed
RequestFailedStep ==
    /\ routeCall # <<>>
    /\ routeCall' = <<>>
    /\ monitoringIntervalRef' = monitoringIntervalRef

\* C27: a failed calculation leaves no route, no route label, an error shown
\* and loading false; while the start or the end is missing no request is
\* sent and route, route label and monitor stay as they are
C27_FailureAndMissingPoint ==
    /\ [][RequestFailedStep
          => (route' = <<>> /\ routeInfo' = <<>> /\ error' # "" /\ ~loading')]_vars
    /\ [][(start = <<>> \/ end = <<>>)
          => (nRouteCalls' = nRouteCalls /\ routeCall' = routeCall
              /\ route' = route /\ routeInfo' = routeInfo
              /\ monitorVars' = monitorVars)]_vars

\* the handler was called without a destination, and a later calculation
\* has failed with its error shown
C27_Witness ==
    /\ errorTimeouts = 1
    /\ nRouteCalls = 2
    /\ routeCall = <<>>
    /\ route = <<>>
    /\ error = "Request timeout"
    /\ monitoringIntervalRef = 1
====
